---- MODULE Spec2Model ----
(***************************************************************************)
(* A model of the object-lifecycle provider core of pulumi-snowflake:      *)
(* Validation.validate_identifier, ValueOrTokenAttribute and               *)
(* SnowflakeObjectProvider.create with the calls it makes on the           *)
(* connection provider, the connection and the cursor.                     *)
(*                                                                         *)
(* Python strings that the code inspects character by character (names,   *)
(* identifiers) are sequences of one-character strings.  Python values are *)
(* records tagged by "kind", so that None, strings, tokens and tuples can  *)
(* be compared with one another.  A dict is a function whose DOMAIN is its  *)
(* key set.  SQL text is a sequence of atoms (keywords, identifiers and    *)
(* the line separator).  An exception is the name of its kind; NoError     *)
(* stands for normal completion.                                           *)
(***************************************************************************)
EXTENDS Integers, Sequences, FiniteSets, TLC

VARIABLES op, args, out

vars == <<op, args, out>>

----------------------------------------------------------------------------
(* Bounds of the model *)

\* longest string handed to validate_identifier on its own
MaxLen == 2

\* longest `name` / `resource_name` string in the inputs of create
MaxNameLen == 1

BoundedSeq(S, n) == UNION {[1..k -> S] : k \in 0..n}

----------------------------------------------------------------------------
(* Python values *)

None == [kind |-> "None"]

Str(chars) == [kind |-> "str", chars |-> chars]

Tuple(items) == [kind |-> "tuple", items |-> items]

NoError == "none"

\* d.get(k): None when the key is missing
dict_get(d, k) == IF k \in DOMAIN d THEN d[k] ELSE None

\* {**d1, **d2}: the later entry wins
dict_merge(d1, d2) ==
    [k \in DOMAIN d1 \cup DOMAIN d2 |-> IF k \in DOMAIN d2 THEN d2[k] ELSE d1[k]]

Min(S) == CHOOSE x \in S : \A y \in S : x <= y

----------------------------------------------------------------------------
(* Validation.validate_identifier *)

UpperCase == {"A","B","C","D","E","F","G","H","I","J","K","L","M",
              "N","O","P","Q","R","S","T","U","V","W","X","Y","Z"}

LowerCase == {"a","b","c","d","e","f","g","h","i","j","k","l","m",
              "n","o","p","q","r","s","t","u","v","w","x","y","z"}

Digits == {"0","1","2","3","4","5","6","7","8","9"}

\* The bracket expression of the pattern, [A-Z,a-z,0-9$_]: three ranges and
\* the literal characters ',' (twice), '$' and '_'.
IdentifierPatternClass == UpperCase \cup {","} \cup LowerCase \cup {","} \cup Digits \cup {"$", "_"}

\* re.compile("^(CLASS)+$").match(id): one or more characters of the class
\* from the start of the string, up to a point where '$' matches.  Without
\* re.MULTILINE, '$' matches at the end of the string and also just before
\* a newline that is the last character of the string.
MatchAnchoredClassPlus(class, id) ==
    \E n \in 1..Len(id) :
        /\ \A i \in 1..n : id[i] \in class
        /\ \/ n = Len(id)
           \/ n = Len(id) - 1 /\ id[Len(id)] = "\n"

\* The outcome of validate_identifier(id): the exception raised, or NoError
\* and the value returned.
validate_identifier(id) ==
    IF ~MatchAnchoredClassPlus(IdentifierPatternClass, id)
    THEN [raised |-> "InvalidIdentifier", value |-> None]
    ELSE [raised |-> NoError, value |-> Str(id)]

----------------------------------------------------------------------------
(* Tokens and attributes *)

\* Token: a sentinel with a fixed SQL spelling
Token(sql) == [kind |-> "token", sql |-> sql]

TokenNONE == Token("NONE")

TokenAUTO == Token("AUTO")

\* str.upper() on the attribute names the model uses
str_upper(name) ==
    CASE name = "type" -> "TYPE"
      [] name = "comment" -> "COMMENT"
      [] OTHER -> name

\* BaseAttribute.__init__(name, required): sql_name defaults to the upper-cased
\* name
BaseAttribute(name, required) ==
    [name |-> name, required |-> required, sql_name |-> str_upper(name)]

\* A plain value attribute with the default SQL name
ValueAttribute(name, required) ==
    [variant |-> "value"] @@ BaseAttribute(name, required)

\* A plain value attribute whose SQL name is overridden
ValueAttributeNamed(name, required, sql_name) ==
    [variant |-> "value"] @@ [BaseAttribute(name, required) EXCEPT !.sql_name = sql_name]

\* The positional placeholder of the driver
Placeholder == "%s"

Word(w) == [atom |-> "word", w |-> w]

Ident(chars) == [atom |-> "ident", chars |-> chars]

NewLine == [atom |-> "newline"]

ValueAttribute_generate_sql(self, value) ==
    <<Word(self.sql_name), Word("="), Word(Placeholder)>>

ValueAttribute_generate_bindings(self, value) == Tuple(<<value>>)

\* ValueOrTokenAttribute.__init__(attribute, token)
ValueOrTokenAttribute(attribute, token) ==
    [variant |-> "value_or_token", attribute |-> attribute, token |-> token] @@
    BaseAttribute(attribute.name, attribute.required)

ValueOrTokenAttribute_generate_sql(self, value) ==
    IF value = self.token
    THEN <<Word(self.sql_name), Word("="), Word(self.token.sql)>>
    ELSE ValueAttribute_generate_sql(self.attribute, value)

ValueOrTokenAttribute_generate_bindings(self, value) ==
    IF value = self.token
    THEN None
    ELSE ValueAttribute_generate_bindings(self.attribute, value)

\* a.generate_sql(value) and a.generate_bindings(value), by the class of a
generate_sql(a, value) ==
    IF a.variant = "value_or_token"
    THEN ValueOrTokenAttribute_generate_sql(a, value)
    ELSE ValueAttribute_generate_sql(a, value)

generate_bindings(a, value) ==
    IF a.variant = "value_or_token"
    THEN ValueOrTokenAttribute_generate_bindings(a, value)
    ELSE ValueAttribute_generate_bindings(a, value)

is_required(a) == a.required

----------------------------------------------------------------------------
(* RandomId.generate *)

HexDigits == Digits \cup {"a", "b", "c", "d", "e", "f"}

\* the length of the random suffix of an auto-generated name
SuffixLength == 7

\* Strings the random source may produce
HexSamples ==
    { <<"0","a","3","f","9","c","1">>, <<"d","e","a","d","b","e","e">> }

\* RandomId.generate(length): the strings a call may return, each of exactly
\* `length` lowercase hex characters
RandomId_generate(length) ==
    {s \in HexSamples : Len(s) = length /\ \A i \in 1..Len(s) : s[i] \in HexDigits}

----------------------------------------------------------------------------
(* SnowflakeObjectProvider *)

\* SnowflakeObjectProvider.__init__ as called by a per-object-type provider:
\* type names the subclass, hook its generate_outputs
SnowflakeObjectProvider(type, sql_name, attributes, hook) ==
    [type |-> type, sql_name |-> sql_name, attributes |-> attributes, hook |-> hook]

\* The header hook of a subclass: "CREATE {sql_name} {name}".  The FILE FORMAT
\* type is scoped to a database, which it validates as an identifier.
generate_sql_create_header(self, name, inputs) ==
    LET line == <<Word("CREATE"), Word(self.sql_name), Ident(name.chars)>>
        database == dict_get(inputs, "database")
    IN  IF self.type # "file_format" THEN [raised |-> NoError, value |-> line]
        ELSE IF database = None THEN [raised |-> "MissingScope", value |-> None]
        ELSE IF validate_identifier(database.chars).raised # NoError
             THEN [raised |-> "InvalidIdentifier", value |-> None]
        ELSE [raised |-> NoError, value |-> line]

\* The outputs hook of a subclass: it may pass the provisional outputs on,
\* add a key or remove keys.
generate_outputs(self, name, inputs, outs) ==
    CASE self.hook = "passthrough" -> outs
      [] self.hook = "add_key" -> dict_merge(outs, [full_name |-> name])
      [] self.hook = "drop_nulls" -> [k \in {j \in DOMAIN outs : outs[j] # None} |-> outs[k]]

\* The error raised by the loop body for one attribute (inputs[attribute.name]
\* is a subscript: a missing key raises KeyError)
RequiredAttributeError(attribute, inputs) ==
    IF ~is_required(attribute) THEN NoError
    ELSE IF attribute.name \notin DOMAIN inputs THEN "KeyError"
    ELSE IF inputs[attribute.name] = None THEN "MissingRequiredAttribute"
    ELSE NoError

_check_required_attributes_either(self, inputs) ==
    LET failing == {i \in DOMAIN self.attributes :
                        RequiredAttributeError(self.attributes[i], inputs) # NoError}
    IN  IF failing # {}
        THEN RequiredAttributeError(self.attributes[Min(failing)], inputs)
        ELSE IF dict_get(inputs, "name") = None \/ dict_get(inputs, "resource_name") = None
        THEN "MissingNameAttribute"
        ELSE NoError

\* _check_required_attributes(inputs): the exception raised, or NoError.  The
\* loop raises at the first attribute in declared order that fails.
_check_required_attributes(self, inputs) ==
    LET failing == {i \in DOMAIN self.attributes :
                        RequiredAttributeError(self.attributes[i], inputs) # NoError}
    IN  IF failing # {}
        THEN RequiredAttributeError(self.attributes[Min(failing)], inputs)
        ELSE IF dict_get(inputs, "name") = None /\ dict_get(inputs, "resource_name") = None
        THEN "MissingNameAttribute"
        ELSE NoError

\* str(v) inside an f-string
format_value(v) == IF v.kind = "str" THEN v.chars ELSE <<"N", "o", "n", "e">>

\* _get_validated_autogenerated_name(inputs); suffix is what
\* RandomId.generate(7) returns if it is called
_get_validated_autogenerated_name(inputs, suffix) ==
    LET name == dict_get(inputs, "name")
    IN  IF name # None THEN validate_identifier(name.chars)
        ELSE IF "resource_name" \notin DOMAIN inputs
        THEN [raised |-> "KeyError", value |-> None]
        ELSE validate_identifier(format_value(inputs["resource_name"]) \o <<"_">> \o suffix)

_generate_outputs_from_attributes_with_values(self, inputs) ==
    LET present == {i \in DOMAIN self.attributes :
                        dict_get(inputs, self.attributes[i].name) # None}
    IN  [k \in {self.attributes[i].name : i \in present} |-> dict_get(inputs, k)]

\* _generate_outputs_from_attributes(inputs)
_generate_outputs_from_attributes(self, inputs) ==
    [k \in {self.attributes[i].name : i \in DOMAIN self.attributes} |-> dict_get(inputs, k)]

\* _generate_sql_create_statement: the header, then one line per attribute
_generate_sql_create_statement(self, attributesWithValues, validated_name, inputs) ==
    LET header == generate_sql_create_header(self, validated_name, inputs)
    IN  IF header.raised # NoError THEN header
        ELSE [raised |-> NoError,
              value |-> <<header.value>> \o
                        [i \in DOMAIN attributesWithValues |->
                            generate_sql(attributesWithValues[i],
                                         dict_get(inputs, attributesWithValues[i].name))]]

\* the concatenation of the tuples of a list of tuples
RECURSIVE flatten(_)
flatten(tuples) ==
    IF tuples = <<>> THEN <<>> ELSE Head(tuples).items \o flatten(Tail(tuples))

_generate_sql_create_bindings_unfiltered(attributesWithValues, inputs) ==
    [i \in DOMAIN attributesWithValues |-> dict_get(inputs, attributesWithValues[i].name)]

\* _generate_sql_create_bindings: the binding tuples that are not None,
\* flattened
_generate_sql_create_bindings(attributesWithValues, inputs) ==
    LET bindingTuplesList ==
            [i \in DOMAIN attributesWithValues |->
                generate_bindings(attributesWithValues[i],
                                  dict_get(inputs, attributesWithValues[i].name))]
    IN  flatten(SelectSeq(bindingTuplesList, LAMBDA t : t # None))

\* '\n'.join(statement)
RECURSIVE join_lines(_)
join_lines(statement) ==
    IF statement = <<>> THEN <<>>
    ELSE IF Len(statement) = 1 THEN statement[1]
    ELSE statement[1] \o <<NewLine>> \o join_lines(Tail(statement))

\* One call on a collaborator (the connection provider, the connection or
\* the cursor), as the log of a create records it
Call(method, arguments, failed) ==
    [method |-> method, arguments |-> arguments, failed |-> failed]

\* The calls of the collaborators that can fail; env names the one that does
EnvOutcomes == {"ok", "get", "cursor", "execute", "cursor_close"}

\* _execute_sql(statement, bindings): the calls made, in order, and the
\* exception that leaves the method.  A failing get() or cursor() raises
\* before the try statement; a failing execute() runs the finally clause and
\* raises past connection.close(), and so does a failing cursor.close().
_execute_sql(self, statement, bindings, env) ==
    LET get == Call("connection_provider.get", <<>>, env = "get")
        cursor == Call("connection.cursor", <<>>, env = "cursor")
        execute == Call("cursor.execute",
                        <<join_lines(statement), Tuple(bindings)>>, env = "execute")
        cursor_close == Call("cursor.close", <<>>, env = "cursor_close")
        connection_close == Call("connection.close", <<>>, FALSE)
    IN  IF get.failed
        THEN [raised |-> "SqlExecutionError", calls |-> <<get>>]
        ELSE IF cursor.failed
        THEN [raised |-> "SqlExecutionError", calls |-> <<get, cursor>>]
        ELSE IF execute.failed
        THEN [raised |-> "SqlExecutionError",
              calls |-> <<get, cursor, execute, cursor_close>>]
        ELSE IF cursor_close.failed
        THEN [raised |-> "SqlExecutionError",
              calls |-> <<get, cursor, execute, cursor_close>>]
        ELSE [raised |-> NoError,
              calls |-> <<get, cursor, execute, cursor_close, connection_close>>]

CreateResult(id_, outs) == [kind |-> "CreateResult", id |-> id_, outs |-> outs]

\* What a call of create leaves behind: the exception raised, the calls made
\* on the collaborators, the name resolved, the map handed to the
\* generate_outputs hook and the value returned
Outcome(raised, calls, validated_name, provisional_outputs, result) ==
    [raised |-> raised, calls |-> calls, validated_name |-> validated_name,
     provisional_outputs |-> provisional_outputs, result |-> result]

\* The name of _get_validated_autogenerated_name before it is validated
unvalidated_name(inputs, suffix) ==
    IF dict_get(inputs, "name") # None THEN dict_get(inputs, "name")
    ELSE Str(format_value(dict_get(inputs, "resource_name")) \o <<"_">> \o suffix)

create_validating_name_late(self, inputs, suffix, env) ==
    LET checked == _check_required_attributes(self, inputs)
        name == unvalidated_name(inputs, suffix)
        attributes_with_values ==
            SelectSeq(self.attributes, LAMBDA a : dict_get(inputs, a.name) # None)
        sql_statements ==
            _generate_sql_create_statement(self, attributes_with_values, name, inputs)
        sql_bindings == _generate_sql_create_bindings(attributes_with_values, inputs)
        executed == _execute_sql(self, sql_statements.value, sql_bindings, env)
        named == _get_validated_autogenerated_name(inputs, suffix)
        provisional_outputs ==
            dict_merge([name |-> named.value],
                       _generate_outputs_from_attributes(self, inputs))
    IN  IF checked # NoError
        THEN Outcome(checked, <<>>, None, None, None)
        ELSE IF sql_statements.raised # NoError
        THEN Outcome(sql_statements.raised, <<>>, None, None, None)
        ELSE IF executed.raised # NoError
        THEN Outcome(executed.raised, executed.calls, None, None, None)
        ELSE IF named.raised # NoError
        THEN Outcome(named.raised, executed.calls, None, None, None)
        ELSE Outcome(NoError, executed.calls, named.value, provisional_outputs,
                     CreateResult(named.value,
                         generate_outputs(self, named.value, inputs, provisional_outputs)))

\* create(inputs)
create(self, inputs, suffix, env) ==
    LET checked == _check_required_attributes(self, inputs)
        named == _get_validated_autogenerated_name(inputs, suffix)
        validated_name == named.value
        attributes_with_values ==
            SelectSeq(self.attributes, LAMBDA a : dict_get(inputs, a.name) # None)
        sql_statements ==
            _generate_sql_create_statement(self, attributes_with_values, validated_name, inputs)
        sql_bindings == _generate_sql_create_bindings(attributes_with_values, inputs)
        executed == _execute_sql(self, sql_statements.value, sql_bindings, env)
        provisional_outputs ==
            dict_merge([name |-> validated_name],
                       _generate_outputs_from_attributes(self, inputs))
    IN  IF checked # NoError
        THEN Outcome(checked, <<>>, None, None, None)
        ELSE IF named.raised # NoError
        THEN Outcome(named.raised, <<>>, None, None, None)
        ELSE IF sql_statements.raised # NoError
        THEN Outcome(sql_statements.raised, <<>>, validated_name, None, None)
        ELSE IF executed.raised # NoError
        THEN Outcome(executed.raised, executed.calls, validated_name, None, None)
        ELSE Outcome(NoError, executed.calls, validated_name, provisional_outputs,
                     CreateResult(validated_name,
                         generate_outputs(self, validated_name, inputs, provisional_outputs)))

FileFormatProvider_identity_is_name(inputs, core) == core.result.id

\* The identity a FILE FORMAT create returns: the database of the inputs
FileFormatProvider_identity(inputs, core) == inputs["database"]

\* FileFormatProvider.create(inputs): the core's create with the identity
\* replaced
FileFormatProvider_create(self, inputs, suffix, env) ==
    LET core == create(self, inputs, suffix, env)
    IN  IF core.raised # NoError THEN core
        ELSE [core EXCEPT !.result.id = FileFormatProvider_identity(inputs, core)]

----------------------------------------------------------------------------
(* Operations applied to drawn inputs *)

\* Characters of the strings handed to validate_identifier
IdChars == {"a", "Z", "7", "$", "_", ",", "-", " ", "\n"}

\* Characters of the `name` and `resource_name` inputs of create
NameChars == {"a", ",", "-"}

\* A key left out of a dict under construction
Absent == [kind |-> "absent"]

\* The dict with the entries of `entries` that are not Absent
make_dict(entries) ==
    [k \in {j \in DOMAIN entries : entries[j] # Absent} |-> entries[k]]

NameValues == {Absent, None} \cup {Str(s) : s \in BoundedSeq(NameChars, MaxNameLen)}

DatabaseValues == {Absent, Str(<<"d", "b">>), Str(<<"d", "-">>)}

AttributeValues == {Absent, None, Str(<<"C", "S", "V">>), TokenNONE}

\* The per-object-type providers constructed
Providers ==
    { SnowflakeObjectProvider("file_format", "FILE FORMAT",
          <<ValueAttribute("type", TRUE)>>, "passthrough"),
      SnowflakeObjectProvider("generic", "STORAGE INTEGRATION",
          <<ValueAttribute("type", TRUE),
            ValueOrTokenAttribute(ValueAttribute("comment", FALSE), TokenNONE)>>, "add_key"),
      SnowflakeObjectProvider("generic", "STAGE",
          <<ValueOrTokenAttribute(ValueAttribute("comment", TRUE), TokenNONE),
            ValueAttributeNamed("type", FALSE, "FILE_TYPE")>>, "drop_nulls"),
      SnowflakeObjectProvider("generic", "PIPE",
          <<ValueOrTokenAttribute(ValueAttributeNamed("type", FALSE, "FILE_TYPE"), TokenNONE),
            ValueAttribute("comment", FALSE)>>, "passthrough") }

\* The attributes a ValueOrTokenAttribute is made to wrap
WrappedAttributes ==
    { ValueAttribute("type", TRUE), ValueAttribute("comment", FALSE),
      ValueAttributeNamed("type", FALSE, "FILE_TYPE") }

Init ==
    /\ op = "idle"
    /\ args = <<>>
    /\ out = <<>>

\* validate_identifier(id)
ValidateIdentifierCall ==
    /\ op = "idle"
    /\ \E id \in BoundedSeq(IdChars, MaxLen) :
        /\ op' = "validate_identifier"
        /\ args' = [id |-> id]
        /\ out' = validate_identifier(id)

\* generate_sql(value) and generate_bindings(value) of a ValueOrTokenAttribute
AttributeCall ==
    /\ op = "idle"
    /\ \E attribute \in WrappedAttributes, token \in {TokenNONE, TokenAUTO},
          value \in {Str(<<"C", "S", "V">>), Str(<<>>), TokenNONE, TokenAUTO} :
        LET self == ValueOrTokenAttribute(attribute, token)
        IN  /\ op' = "attribute"
            /\ args' = [self |-> self, value |-> value]
            /\ out' = [sql |-> generate_sql(self, value),
                       bindings |-> generate_bindings(self, value)]

\* create(inputs) on one of the providers
CreateCall ==
    /\ op = "idle"
    /\ \E self \in Providers, name \in NameValues, resource_name \in NameValues,
          database \in DatabaseValues, type \in AttributeValues,
          comment \in AttributeValues, env \in EnvOutcomes,
          suffix \in RandomId_generate(SuffixLength) :
        LET inputs == make_dict([name |-> name, resource_name |-> resource_name,
                                 database |-> database, type |-> type,
                                 comment |-> comment,
                                 snowflakeUsername |-> Str(<<"u">>)])
        IN  /\ op' = "create"
            /\ args' = [self |-> self, inputs |-> inputs, env |-> env]
            /\ out' = IF self.type = "file_format"
                      THEN FileFormatProvider_create(self, inputs, suffix, env)
                      ELSE create(self, inputs, suffix, env)

Next ==
    \/ ValidateIdentifierCall
    \/ AttributeCall
    \/ CreateCall

Spec == Init /\ [][Next]_vars

----------------------------------------------------------------------------
(* What the checked statements speak about *)

inputs_of_call == args.inputs

attributes_of_call == args.self.attributes

\* the connection was acquired / released / a statement was executed
Acquired(calls) ==
    \E i \in DOMAIN calls : calls[i].method = "connection_provider.get" /\ ~calls[i].failed

Released(calls) ==
    \E i \in DOMAIN calls : calls[i].method = "connection.close"

Executions(calls) == SelectSeq(calls, LAMBDA c : c.method = "cursor.execute")

\* The identifier grammar ^[A-Za-z0-9$_]+$
GrammarIdentifierClass == UpperCase \cup LowerCase \cup Digits \cup {"$", "_"}

IsGrammarIdentifier(s) == Len(s) >= 1 /\ \A i \in 1..Len(s) : s[i] \in GrammarIdentifierClass

\* the lines of a newline-joined text
RECURSIVE split_lines(_)
split_lines(text) ==
    LET breaks == {i \in 1..Len(text) : text[i] = NewLine}
    IN  IF breaks = {} THEN <<text>>
        ELSE <<SubSeq(text, 1, Min(breaks) - 1)>> \o
             split_lines(SubSeq(text, Min(breaks) + 1, Len(text)))

PlaceholderCount(line) == Cardinality({p \in DOMAIN line : line[p] = Word(Placeholder)})

\* for each placeholder of the clauses, in order, the index of its clause
RECURSIVE placeholder_owners(_, _)
placeholder_owners(clauses, i) ==
    IF i > Len(clauses) THEN <<>>
    ELSE [p \in 1..PlaceholderCount(clauses[i]) |-> i] \o placeholder_owners(clauses, i + 1)

SomeRequiredMissing(self, inputs) ==
    \E i \in DOMAIN self.attributes :
        self.attributes[i].required /\ dict_get(inputs, self.attributes[i].name) = None

NoNameGiven(inputs) ==
    dict_get(inputs, "name") = None /\ dict_get(inputs, "resource_name") = None

NameRejected(inputs) ==
    /\ dict_get(inputs, "name") # None
    /\ validate_identifier(dict_get(inputs, "name").chars).raised # NoError

GeneratedNameRejected(inputs) ==
    /\ dict_get(inputs, "name") = None
    /\ dict_get(inputs, "resource_name") # None
    /\ \A suffix \in RandomId_generate(SuffixLength) :
          validate_identifier(dict_get(inputs, "resource_name").chars
                              \o <<"_">> \o suffix).raised # NoError

ValidationErrors ==
    {"KeyError", "MissingRequiredAttribute", "MissingNameAttribute",
     "InvalidIdentifier", "MissingScope"}

----------------------------------------------------------------------------
(* The checked statements *)

\* C1: a create whose inputs fail validation (a required attribute missing,
\* neither name nor resource_name given, a name or an auto-generated name
\* that validate_identifier rejects) raises a validation error, and a create
\* that raises a validation error has acquired no connection and executed no
\* statement: it has made no call on the collaborators at all.
C1_ValidationBeforeSql ==
    op = "create" =>
        /\ ( \/ SomeRequiredMissing(args.self, inputs_of_call)
             \/ NoNameGiven(inputs_of_call)
             \/ NameRejected(inputs_of_call)
             \/ GeneratedNameRejected(inputs_of_call) )
           => out.raised \in ValidationErrors
        /\ out.raised \in ValidationErrors => out.calls = <<>>

C1_Witness ==
    /\ op = "create"
    /\ GeneratedNameRejected(inputs_of_call)
    /\ ~SomeRequiredMissing(args.self, inputs_of_call)
    /\ out.raised = "InvalidIdentifier"
    /\ out.calls = <<>>

\* C2: every connection acquired during create is released
\* (connection.close is called) by the time create returns or raises.
C2_ConnectionAlwaysReleased ==
    op = "create" /\ Acquired(out.calls) => Released(out.calls)

\* C3: the statement and the bindings handed to cursor.execute are aligned:
\* after the header there is one clause per attribute whose input is not None,
\* in declared order; a clause of an attribute given its token spells the
\* token and has no placeholder, any other clause has one placeholder; the
\* bindings are as many as the placeholders, and the i-th binding is the input
\* of the attribute that owns the i-th placeholder.
C3_StatementAndBindingsAligned ==
    op = "create" =>
        \A k \in DOMAIN out.calls :
            out.calls[k].method = "cursor.execute" =>
                LET clauses == Tail(split_lines(out.calls[k].arguments[1]))
                    bindings == out.calls[k].arguments[2].items
                    present == SelectSeq(attributes_of_call,
                                   LAMBDA a : dict_get(inputs_of_call, a.name) # None)
                    given_token(a) == /\ a.variant = "value_or_token"
                                      /\ dict_get(inputs_of_call, a.name) = a.token
                    sql_names(a) == IF a.variant = "value_or_token"
                                    THEN {a.sql_name, a.attribute.sql_name}
                                    ELSE {a.sql_name}
                    owners == placeholder_owners(clauses, 1)
                IN  /\ Len(clauses) = Len(present)
                    /\ \A i \in DOMAIN clauses :
                          /\ clauses[i][1] \in {Word(n) : n \in sql_names(present[i])}
                          /\ IF given_token(present[i])
                             THEN /\ PlaceholderCount(clauses[i]) = 0
                                  /\ clauses[i][Len(clauses[i])] = Word(present[i].token.sql)
                             ELSE PlaceholderCount(clauses[i]) = 1
                    /\ Len(owners) = Len(bindings)
                    /\ \A j \in DOMAIN owners :
                          bindings[j] = dict_get(inputs_of_call, present[owners[j]].name)

C3_Witness ==
    /\ op = "create"
    /\ out.raised = NoError
    /\ \E i, j \in DOMAIN attributes_of_call :
          /\ i < j
          /\ attributes_of_call[i].variant = "value_or_token"
          /\ dict_get(inputs_of_call, attributes_of_call[i].name) = attributes_of_call[i].token
          /\ dict_get(inputs_of_call, attributes_of_call[j].name) \notin {None, TokenNONE}
    /\ Len(Executions(out.calls)) = 1
    /\ Len(Executions(out.calls)[1].arguments[2].items) = 1

\* C4: whenever a required attribute is missing from the inputs, its key
\* absent or its value None, create raises MissingRequiredAttribute and
\* executes no statement.
C4_MissingRequiredAttribute ==
    op = "create" /\ SomeRequiredMissing(args.self, inputs_of_call) =>
        /\ out.raised = "MissingRequiredAttribute"
        /\ Executions(out.calls) = <<>>

\* C5 as stated: whenever neither name nor resource_name is given, create
\* raises MissingNameAttribute and executes no statement; whenever one of them
\* is given, it does not raise MissingNameAttribute.
C5_MissingNameAlways ==
    op = "create" =>
        IF NoNameGiven(inputs_of_call)
        THEN out.raised = "MissingNameAttribute" /\ Executions(out.calls) = <<>>
        ELSE out.raised # "MissingNameAttribute"

\* C5 as amended: whenever neither name nor resource_name is given, create
\* fails and executes no statement, and the error is MissingNameAttribute
\* when no required attribute is missing (the required attributes are checked
\* first); whenever one of them is given, it does not raise
\* MissingNameAttribute.
C5_MissingNameAfterRequired ==
    op = "create" =>
        IF NoNameGiven(inputs_of_call)
        THEN /\ out.raised # NoError
             /\ Executions(out.calls) = <<>>
             /\ ~SomeRequiredMissing(args.self, inputs_of_call)
                    => out.raised = "MissingNameAttribute"
        ELSE out.raised # "MissingNameAttribute"

C5_Witness ==
    /\ op = "create"
    /\ NoNameGiven(inputs_of_call)
    /\ ~SomeRequiredMissing(args.self, inputs_of_call)
    /\ out.raised = "MissingNameAttribute"
    /\ out.calls = <<>>

\* C6: validate_identifier accepts exactly the non-empty strings over
\* A-Z, a-z, 0-9, '$' and '_', and returns an accepted string unchanged.
C6_AcceptsExactlyTheGrammar ==
    op = "validate_identifier" =>
        /\ out.raised = NoError <=> IsGrammarIdentifier(args.id)
        /\ out.raised = NoError => out.value = Str(args.id)

\* C7: on a successful create the resolved name is inputs.name when that is
\* given; otherwise it is resource_name, '_' and 7 lowercase hex characters,
\* and resource_name is a valid identifier (an invalid one makes create
\* fail); the resolved name is the one in the statement header and in
\* outputs['name'].
C7_NameResolution ==
    op = "create" /\ out.raised = NoError =>
        LET name == dict_get(inputs_of_call, "name")
            resource_name == dict_get(inputs_of_call, "resource_name")
            resolved == out.validated_name.chars
            header == split_lines(Executions(out.calls)[1].arguments[1])[1]
        IN  /\ name # None => out.validated_name = name
            /\ name = None =>
                  /\ Len(resolved) = Len(resource_name.chars) + 1 + SuffixLength
                  /\ SubSeq(resolved, 1, Len(resource_name.chars)) = resource_name.chars
                  /\ resolved[Len(resource_name.chars) + 1] = "_"
                  /\ \A i \in 1..SuffixLength :
                        resolved[Len(resource_name.chars) + 1 + i] \in HexDigits
                  /\ IsGrammarIdentifier(resource_name.chars)
            /\ header[Len(header)] = Ident(resolved)
            /\ out.provisional_outputs["name"] = out.validated_name

\* C8: a ValueOrTokenAttribute given its token renders
\* "{SQL_NAME} = {TOKEN_LITERAL}" with the SQL name of the wrapped attribute
\* and binds nothing; given any other value it renders and binds what the
\* wrapped attribute does: "{SQL_NAME} = placeholder" and the one-element
\* tuple of the value.
C8_ValueOrToken ==
    op = "attribute" =>
        LET wrapped == args.self.attribute
        IN  IF args.value = args.self.token
            THEN /\ out.sql = <<Word(wrapped.sql_name), Word("="), Word(args.self.token.sql)>>
                 /\ out.bindings = None
            ELSE /\ out.sql = <<Word(wrapped.sql_name), Word("="), Word(Placeholder)>>
                 /\ out.sql = ValueAttribute_generate_sql(wrapped, args.value)
                 /\ out.bindings = Tuple(<<args.value>>)

\* C9: on a successful create the map handed to the generate_outputs hook
\* has exactly the key `name`, mapped to the resolved name, and one key per
\* declared attribute, mapped to inputs.get of its name (None when the input
\* is None or absent); the outputs returned are what the hook returns.
C9_ProvisionalOutputs ==
    op = "create" /\ out.raised = NoError =>
        LET names == {attributes_of_call[i].name : i \in DOMAIN attributes_of_call}
        IN  /\ DOMAIN out.provisional_outputs = {"name"} \cup names
            /\ out.provisional_outputs["name"] = out.validated_name
            /\ \A n \in names :
                  out.provisional_outputs[n] = dict_get(inputs_of_call, n)
            /\ out.result.outs =
                  generate_outputs(args.self, out.validated_name, inputs_of_call,
                                   out.provisional_outputs)

C9_Witness ==
    /\ op = "create"
    /\ out.raised = NoError
    /\ \E i \in DOMAIN attributes_of_call :
          /\ attributes_of_call[i].name \notin DOMAIN inputs_of_call
          /\ out.provisional_outputs[attributes_of_call[i].name] = None
    /\ "resource_name" \in DOMAIN inputs_of_call
    /\ "resource_name" \notin DOMAIN out.provisional_outputs

====
